---------------------------- MODULE Spec2Model ----------------------------
(***************************************************************************)
(* A model of the pyte pagination engine: containers (layout.py),          *)
(* flowables (flowable.py), chains (layout.py) and the document render     *)
(* loop (document.py).                                                     *)
(*                                                                         *)
(* Heights are natural numbers; a flowable's content is a number of lines  *)
(* of height one, placed by one advance call each.                         *)
(***************************************************************************)
EXTENDS Integers, Sequences, FiniteSets

\* ------------------------------------------------------------------ bounds
\* Largest page count of a pass and largest page number of a reference.
MaxPages == 2
\* Most render_loop passes of one Document.render call that are followed.
MaxPasses == 12
\* Largest height of a container and largest cap of an expanding container.
MaxCap == 3
\* Largest height passed to a direct advance call.
MaxAdv == 2
\* Longest sequence of direct advance calls on one container.
MaxCalls == 4
\* Most flowables in one flowable list.
MaxFlowables == 2
\* Most containers added to the chain under test.
MaxContainers == 3
\* Largest coordinate or size passed to a container constructor.
MaxDim == 2

\* max_height=None (layout.py: the default of ExpandingContainer.__init__).
None == -1

\* The styles and contents the flowables are drawn from: space_above, number
\* of content lines, space_below.
FlowableKinds ==
    { [space_above |-> 1, lines |-> 2, space_below |-> 0],
      [space_above |-> 0, lines |-> 1, space_below |-> 1],
      [space_above |-> 0, lines |-> 1, space_below |-> 0] }

VARIABLES
    box,        \* the container under test of the advance specification
    calls,      \* the advance calls made on it, in order
    made,       \* the last Container(...) call: its arguments and outcome
    boxes,      \* every container built so far, by id (1..Len(boxes))
    chains,     \* every chain, by id
    flowlog,    \* the calls of Flowable.flow, in order
    signal,     \* how the last Chain.render call ended
    dpc,        \* where Document.render stands
    env,        \* what setup() and the content do in each pass
    cache,      \* the cache file <filename>.ptc
    number_of_pages,
    page_references,
    previous_number_of_pages,
    previous_page_references,
    passes,     \* calls of render_loop so far
    save_count, \* cache files written by save_cache
    write_count,\* calls of backend_document.write
    loaded,     \* the cache file as load_cache found it
    prevpass,   \* the pair left by the pass before the last one
    saved,      \* the pair held by the Document whose save_cache ran last
    written,    \* the references the content wrote in the last pass
    pages,      \* Document.pages: the ids of the page containers
    index,      \* the index of render_loop
    rpc,        \* where render_loop stands
    renderlog,  \* the containers whose render was called, in order
    placelog,   \* the calls of place, in order, each with the number of
                \* render and flow calls made before it
    looplog     \* what render_loop did in this pass, in order

advVars == <<box, calls, made>>
chainVars == <<boxes, chains, flowlog, signal>>
docVars == <<dpc, env, cache, number_of_pages, page_references,
             previous_number_of_pages, previous_page_references, passes,
             save_count, write_count, loaded, prevpass, saved, written>>
treeVars == <<pages, index, rpc, renderlog, placelog, looplog>>
vars == <<advVars, chainVars, docVars, treeVars>>

\* The value of a call: a result bound as the one element of a set is
\* computed once, however often it is read.
Only(S) == CHOOSE x \in S : TRUE

\* ------------------------------------------------------------ containers

\* Python truthiness of a number or None, as in `if self.max_height and ...`.
Truthy(v) == v # None /\ v # 0

\* Container.__init__ / ExpandingContainer.__init__, vertical part.
NewContainer(h, ch) ==
    [kind |-> "bounded", height |-> h, max_height |-> None,
     flowable_offset |-> 0, children |-> <<>>, flowables |-> <<>>,
     chain |-> ch]

NewExpandingContainer(m, ch) ==
    [kind |-> "expanding", height |-> 0, max_height |-> m,
     flowable_offset |-> 0, children |-> <<>>, flowables |-> <<>>,
     chain |-> ch]

\* Python's `a and b`: a when a is falsy, else b.
AndValue(a, b) == IF Truthy(a) THEN b ELSE a

\* The edges of one axis as ContainerBase.__init__ (left, width, right) and
\* Container.__init__ (top, height, bottom) resolve them, in a parent of
\* size psize.  A missing value is computed from the others or from the
\* parent; a subtraction that meets None raises TypeError.
Resolve(psize, lo, size, hi) ==
    LET lo1 == IF lo # None THEN lo
               ELSE IF AndValue(hi, size) = None THEN 0
               ELSE hi - size
        lo_exc == lo = None /\ AndValue(hi, size) # None
                            /\ (hi = None \/ size = None)
        size1 == IF size # None THEN size
                 ELSE IF hi = None THEN psize - lo1
                 ELSE hi - lo1
    IN  IF lo_exc
        THEN [exc |-> "TypeError", lo |-> 0, size |-> 0, hi |-> 0]
        ELSE [exc |-> "none", lo |-> lo1, size |-> size1, hi |-> lo1 + size1]

\* No Container(...) call was made yet.
NotMade ==
    [done |-> FALSE, args |-> <<None, None, None, None, None, None>>,
     exc |-> "none", left |-> 0, width |-> 0, right |-> 0,
     top |-> 0, height |-> 0, bottom |-> 0]

\* Container(parent, left, top, width, height, right, bottom) in a parent
\* of width and height psize: ContainerBase.__init__ resolves the
\* horizontal edges, then Container.__init__ the vertical ones.
\* args = <<left, width, right, top, height, bottom>>.
Construct(psize, args) ==
    LET hor == Resolve(psize, args[1], args[2], args[3])
        ver == Resolve(psize, args[4], args[5], args[6])
    IN  [done |-> TRUE, args |-> args,
         exc |-> IF hor.exc # "none" THEN hor.exc ELSE ver.exc,
         left |-> hor.lo, width |-> hor.size, right |-> hor.hi,
         top |-> ver.lo, height |-> ver.size, bottom |-> ver.hi]

\* Container.advance with the comparison weakened to >=.
ContainerAdvanceGe(c, h) ==
    LET off == c.flowable_offset + h
    IN  [box |-> [c EXCEPT !.flowable_offset = off], raised |-> off >= c.height]

\* Container.advance: the offset is moved first, then compared.
ContainerAdvance(c, h) ==
    LET off == c.flowable_offset + h
    IN  [box |-> [c EXCEPT !.flowable_offset = off], raised |-> off > c.height]

\* ExpandingContainer.advance followed by expand.
ExpandingAdvance(c, h) ==
    LET off == c.flowable_offset + h
    IN  IF Truthy(c.max_height) /\ off > c.max_height
        THEN [box |-> [c EXCEPT !.flowable_offset = off], raised |-> TRUE]
        ELSE [box |-> [c EXCEPT !.flowable_offset = off,
                                !.height = c.height + h],
              raised |-> FALSE]

\* container.advance(h), dispatched on the container's class.
Advance(c, h) ==
    IF c.kind = "expanding" THEN ExpandingAdvance(c, h)
    ELSE ContainerAdvance(c, h)

\* ------------------------------------------------------------- flowables

\* Flowable.__init__: resume is False; done counts the content lines placed.
NewFlowable(k) ==
    [space_above |-> k.space_above, lines |-> k.lines,
     space_below |-> k.space_below, resume |-> FALSE, done |-> 0]

\* Flowable.render of a flowable made of lines: one advance per line, the
\* lines placed so far are kept for the continuation.
RECURSIVE RenderLines(_, _, _)
RenderLines(c, fl, n) ==
    IF fl.done = fl.lines
    THEN [box |-> c, fl |-> fl, raised |-> FALSE, linecalls |-> n]
    ELSE Only({ IF a.raised
                THEN [box |-> a.box, fl |-> fl, raised |-> TRUE,
                      linecalls |-> n + 1]
                ELSE RenderLines(a.box, [fl EXCEPT !.done = @ + 1], n + 1)
              : a \in {Advance(c, 1)} })

\* Flowable.flow with the resume test dropped: space_above on every call.
FlowAlwaysAbove(c, fl) ==
    LET a == Advance(c, fl.space_above)
        f1 == [fl EXCEPT !.resume = TRUE]
    IN  IF a.raised
        THEN [box |-> a.box, fl |-> f1, raised |-> TRUE, above |-> TRUE,
              linecalls |-> 0, below |-> FALSE]
        ELSE LET r == RenderLines(a.box, f1, 0)
             IN  IF r.raised
                 THEN [box |-> r.box, fl |-> r.fl, raised |-> TRUE,
                       above |-> TRUE, linecalls |-> r.linecalls,
                       below |-> FALSE]
                 ELSE [box |-> Advance(r.box, fl.space_below).box,
                       fl |-> [r.fl EXCEPT !.resume = FALSE],
                       raised |-> FALSE, above |-> TRUE,
                       linecalls |-> r.linecalls, below |-> TRUE]

\* Flowable.flow without the try around the last advance: the
\* EndOfContainer of the space_below advance reaches the caller.
FlowRaiseBelow(c, fl) ==
    Only({ IF a.raised
           THEN [box |-> a.box, fl |-> [fl EXCEPT !.resume = TRUE],
                 raised |-> TRUE, above |-> ~fl.resume,
                 linecalls |-> 0, below |-> FALSE]
           ELSE Only({ IF r.raised
                       THEN [box |-> r.box, fl |-> r.fl, raised |-> TRUE,
                             above |-> ~fl.resume,
                             linecalls |-> r.linecalls, below |-> FALSE]
                       ELSE Only({ [box |-> b.box,
                                    fl |-> [r.fl EXCEPT !.resume = FALSE],
                                    raised |-> b.raised, above |-> ~fl.resume,
                                    linecalls |-> r.linecalls, below |-> TRUE]
                                 : b \in {Advance(r.box, fl.space_below)} })
                     : r \in {RenderLines(a.box,
                                          [fl EXCEPT !.resume = TRUE], 0)} })
         : a \in {IF ~fl.resume THEN Advance(c, fl.space_above)
                  ELSE [box |-> c, raised |-> FALSE]} })

\* Flowable.flow.  above, linecalls and below record the advance calls made.
Flow(c, fl) ==
    Only({ IF a.raised
           THEN [box |-> a.box, fl |-> [fl EXCEPT !.resume = TRUE],
                 raised |-> TRUE, above |-> ~fl.resume,
                 linecalls |-> 0, below |-> FALSE]
           ELSE Only({ IF r.raised
                       THEN [box |-> r.box, fl |-> r.fl, raised |-> TRUE,
                             above |-> ~fl.resume,
                             linecalls |-> r.linecalls, below |-> FALSE]
                       ELSE \* EndOfContainer of the last advance is swallowed
                            [box |-> Advance(r.box, fl.space_below).box,
                             fl |-> [r.fl EXCEPT !.resume = FALSE],
                             raised |-> FALSE, above |-> ~fl.resume,
                             linecalls |-> r.linecalls, below |-> TRUE]
                     : r \in {RenderLines(a.box,
                                          [fl EXCEPT !.resume = TRUE], 0)} })
         : a \in {IF ~fl.resume THEN Advance(c, fl.space_above)
                  ELSE [box |-> c, raised |-> FALSE]} })

\* Floating.flow that flows into the given container itself.
FloatingFlowGiven(c, fs, fl) ==
    Only({ [box |-> r.box, float_space |-> fs, fl |-> r.fl,
            raised |-> r.raised, result |-> IF r.raised THEN None ELSE 0,
            flow |-> r]
         : r \in {Flow(c, fl)} })

\* Floating.flow(container) of a Floating that decorates the flowable fl:
\* the flowable is flowed into fs, the container's float_space, and 0 is
\* returned; an EndOfContainer of that flow is not caught.
FloatingFlow(c, fs, fl) ==
    Only({ [box |-> c, float_space |-> r.box, fl |-> r.fl,
            raised |-> r.raised, result |-> IF r.raised THEN None ELSE 0,
            flow |-> r]
         : r \in {Flow(fs, fl)} })

\* ---------------------------------------------------------------- chains

\* No Chain.render call has ended yet.
Idle == [kind |-> "idle", chain |-> 0]
NoExc == [kind |-> "none", chain |-> 0]
EndOfContainer == [kind |-> "EndOfContainer", chain |-> 0]
EndOfPage(k) == [kind |-> "EndOfPage", chain |-> k]

\* Chain.__init__ and add_flowable.
NewChain(fls) ==
    [flowables |-> fls, containers |-> <<>>,
     container_index |-> 0, flowable_index |-> 0]

\* The world the render operators work on.
World ==
    [boxes |-> boxes, chains |-> chains, flowlog |-> flowlog,
     renderlog |-> renderlog, placelog |-> placelog]

LogEntry(k, f, b, c, fl, r) ==
    [chain |-> k, f |-> f, box |-> b, resumeIn |-> fl.resume,
     above |-> r.above, linecalls |-> r.linecalls, below |-> r.below,
     raised |-> r.raised, before |-> c.flowable_offset,
     after |-> r.box.flowable_offset, resumeOut |-> r.fl.resume]

\* One turn of the inner loop of Chain.render that skips the flowable that
\* overflowed.
ChainFlowStepSkip(w, k, b) ==
    LET ch == w.chains[k]
        f  == ch.flowable_index
    IN  Only({ [w |-> [w EXCEPT
                      !.boxes[b] = r.box,
                      !.chains[k].flowables[f + 1] = r.fl,
                      !.chains[k].flowable_index = f + 1,
                      !.flowlog = Append(@,
                          LogEntry(k, f, b, w.boxes[b],
                                   ch.flowables[f + 1], r))],
                raised |-> r.raised]
             : r \in {Flow(w.boxes[b], ch.flowables[f + 1])} })

\* One turn of the inner loop of Chain.render: container.flow(flowable),
\* then the index moves on unless the flow raised.
ChainFlowStep(w, k, b) ==
    LET ch == w.chains[k]
        f  == ch.flowable_index
    IN  Only({ [w |-> [w EXCEPT
                      !.boxes[b] = r.box,
                      !.chains[k].flowables[f + 1] = r.fl,
                      !.chains[k].flowable_index = IF r.raised THEN f ELSE f + 1,
                      !.flowlog = Append(@,
                          LogEntry(k, f, b, w.boxes[b],
                                   ch.flowables[f + 1], r))],
                raised |-> r.raised]
             : r \in {Flow(w.boxes[b], ch.flowables[f + 1])} })

\* The inner loop of Chain.render on container b.
RECURSIVE ChainFlowInto(_, _, _)
ChainFlowInto(w, k, b) ==
    IF w.chains[k].flowable_index < Len(w.chains[k].flowables)
    THEN Only({ IF s.raised THEN s ELSE ChainFlowInto(s.w, k, b)
              : s \in {ChainFlowStep(w, k, b)} })
    ELSE [w |-> w, raised |-> FALSE]

\* Chain.render.
RECURSIVE ChainRender(_, _)
ChainRender(w, k) ==
    LET ch == w.chains[k]
    IN  IF ch.container_index < Len(ch.containers)
        THEN Only({ IF r.raised /\ r.w.chains[k].container_index
                                     > Len(r.w.chains[k].containers) - 1
                    THEN [w |-> r.w, exc |-> EndOfPage(k)]
                    ELSE ChainRender(r.w, k)
                  : r \in {ChainFlowInto(
                              [w EXCEPT !.chains[k].container_index = @ + 1],
                              k, ch.containers[ch.container_index + 1])} })
        ELSE [w |-> w, exc |-> NoExc]

\* -------------------------------------------------------------- document

\* The keys of page_references, and the reference maps: a dict from some of
\* the keys to page numbers.
Keys == {"a"}
EmptyMap == [k \in {} |-> 0]
Maps(P) == UNION {[K -> 1..P] : K \in SUBSET Keys}

\* d.update(w): the entries of w replace or extend those of d.
Override(d, w) ==
    [k \in DOMAIN d \cup DOMAIN w |-> IF k \in DOMAIN w THEN w[k] ELSE d[k]]

Pair(n, r) == [pages |-> n, refs |-> r]
NoPair == Pair(-1, EmptyMap)

\* A dict as pickle writes it, a set of (key, value) items, and the dict
\* pickle builds from such a set.
Items(r) == {<<k, r[k]>> : k \in DOMAIN r}
OfItems(its) ==
    [k \in {it[1] : it \in its} |-> (CHOOSE it \in its : it[1] = k)[2]]

\* One instruction of a pickle stream, and one object on the unpickler's
\* stack.
Tok(op, n, its) == [op |-> op, n |-> n, items |-> its]
Obj(kind, n, r) == [kind |-> kind, n |-> n, refs |-> r]

\* pickle.dump((number_of_pages, page_references), file): the two members
\* are pushed, made a tuple, and the stream is closed by STOP.
PickleDump(n, r) ==
    << Tok("INT", n, {}), Tok("DICT", 0, Items(r)),
       Tok("TUPLE2", 0, {}), Tok("STOP", 0, {}) >>

\* pickle.load(file): the instructions are run on a stack from instruction
\* i on; STOP returns the top of the stack.  A stream that ends before STOP
\* raises EOFError, an instruction without its operands UnpicklingError.
RECURSIVE Unpickle(_, _, _)
Unpickle(data, i, stack) ==
    IF i > Len(data) THEN [exc |-> "EOFError", obj |-> Obj("none", 0, EmptyMap)]
    ELSE LET t == data[i]
             n == Len(stack)
         IN  IF t.op = "INT"
             THEN Unpickle(data, i + 1, Append(stack, Obj("int", t.n, EmptyMap)))
             ELSE IF t.op = "DICT"
             THEN Unpickle(data, i + 1,
                           Append(stack, Obj("dict", 0, OfItems(t.items))))
             ELSE IF t.op = "TUPLE2"
             THEN IF n < 2
                  THEN [exc |-> "UnpicklingError",
                        obj |-> Obj("none", 0, EmptyMap)]
                  ELSE Unpickle(data, i + 1,
                           Append(SubSeq(stack, 1, n - 2),
                                  IF stack[n - 1].kind = "int"
                                     /\ stack[n].kind = "dict"
                                  THEN Obj("pair", stack[n - 1].n, stack[n].refs)
                                  ELSE Obj("tuple", 0, EmptyMap)))
             ELSE \* STOP
                  IF n = 0
                  THEN [exc |-> "UnpicklingError",
                        obj |-> Obj("none", 0, EmptyMap)]
                  ELSE [exc |-> "none", obj |-> stack[n]]

\* self.number_of_pages, self.page_references = pickle.load(file) and the
\* copy that follows: an object that is not a pair of a number and a dict
\* cannot be unpacked or copied.
PickleLoad(data) ==
    LET u == Unpickle(data, 1, <<>>)
    IN  IF u.exc # "none" THEN [exc |-> u.exc, pages |-> 0, refs |-> EmptyMap]
        ELSE IF u.obj.kind # "pair"
        THEN [exc |-> "TypeError", pages |-> 0, refs |-> EmptyMap]
        ELSE [exc |-> "none", pages |-> u.obj.n, refs |-> u.obj.refs]

\* The cache file: whether open() finds and may read it, and its bytes.
CacheFile(st, n, r) == [state |-> st, data |-> PickleDump(n, r)]
MissingFile == [state |-> "missing", data |-> <<>>]
UnreadableFile == [state |-> "unreadable", data |-> <<>>]
\* What load_cache made of the file: the pair it loaded, or the cold start.
Loaded(st, n, r) == [state |-> st, pages |-> n, refs |-> r]
NothingLoaded == Loaded("missing", 0, EmptyMap)

\* The parts of the state a specification does not use.
NoAdvance == box = NewContainer(0, 0) /\ calls = <<>> /\ made = NotMade
NoChain == boxes = <<>> /\ chains = <<>> /\ flowlog = <<>> /\ signal = Idle
NoDocument ==
    /\ dpc = "off"
    /\ env = [mode |-> "free", k |-> 0, base |-> 0, ref |-> FALSE]
    /\ cache = MissingFile
    /\ number_of_pages = 0
    /\ page_references = EmptyMap
    /\ previous_number_of_pages = 0
    /\ previous_page_references = EmptyMap
    /\ passes = 0
    /\ save_count = 0
    /\ write_count = 0
    /\ loaded = NothingLoaded
    /\ prevpass = NoPair
    /\ saved = NoPair
    /\ written = EmptyMap
NoPages ==
    /\ pages = <<>>
    /\ index = 0
    /\ rpc = "off"
    /\ renderlog = <<>>
    /\ placelog = <<>>
    /\ looplog = <<>>

\* ------------------------------------------- specification: advance calls

InitAdvance ==
    /\ box \in {NewContainer(h, 0) : h \in 0..MaxCap}
           \cup {NewExpandingContainer(m, 0) : m \in {None} \cup 0..MaxCap}
    /\ calls = <<>>
    /\ made = NotMade
    /\ NoChain
    /\ NoDocument
    /\ NoPages

\* One call box.advance(h); the call is recorded with the offset before it.
DoAdvance(h) ==
    LET r == Advance(box, h)
    IN  /\ Len(calls) < MaxCalls
        /\ box' = r.box
        /\ calls' = Append(calls, [h |-> h, before |-> box.flowable_offset,
                                   raised |-> r.raised,
                                   height |-> r.box.height])
        /\ UNCHANGED <<made, chainVars, docVars, treeVars>>

NextAdvance == \E h \in 0..MaxAdv : DoAdvance(h)

SpecAdvance == InitAdvance /\ [][NextAdvance]_vars

\* ------------------------------- specification: container construction

\* The values a constructor argument can take: None or a number.
Dims == {None} \cup 0..MaxDim

InitConstruct ==
    /\ NoAdvance
    /\ NoChain
    /\ NoDocument
    /\ NoPages

\* One call Container(parent, ...), in a parent of size MaxDim.
NewContainerCall(args) ==
    /\ ~made.done
    /\ made' = Construct(MaxDim, args)
    /\ UNCHANGED <<box, calls, chainVars, docVars, treeVars>>

NextConstruct ==
    \E args \in [1..6 -> Dims] : NewContainerCall(args)

SpecConstruct == InitConstruct /\ [][NextConstruct]_vars


\* --------------------------------- specification: a floating flowable

\* container.float_space of the container boxes[b]: the container built
\* right after it.
FloatSpaceOf(b) == b + 1

\* A bounded container holding one Floating, and its float space, a
\* bounded or an expanding container.
InitFloat ==
    /\ NoAdvance
    /\ boxes \in
         { << [NewContainer(h, 0) EXCEPT !.flowables = <<NewFlowable(k)>>],
              fs >> :
           h \in 0..MaxCap, k \in FlowableKinds,
           fs \in {NewContainer(g, 0) : g \in 0..MaxCap}
                  \cup {NewExpandingContainer(m, 0) :
                           m \in {None} \cup 0..MaxCap} }
    /\ chains = <<>>
    /\ flowlog = <<>>
    /\ signal = Idle
    /\ NoDocument
    /\ NoPages

\* Other content moves the cursor of the container: container.advance(h)
\* within its height.
AdvanceGiven(h) ==
    /\ boxes[1].flowable_offset + h <= boxes[1].height
    /\ boxes' = [boxes EXCEPT ![1] = Advance(@, h).box]
    /\ UNCHANGED <<advVars, docVars, treeVars, chains, flowlog, signal>>

\* One call of Floating.flow(container): the first one, or the one that
\* continues the flowable after its flow raised.
FloatingFlowCall ==
    /\ Len(flowlog) < MaxCalls
    /\ IF flowlog = <<>> THEN TRUE ELSE flowlog[Len(flowlog)].raised
    /\ \E r \in {FloatingFlow(boxes[1], boxes[FloatSpaceOf(1)],
                               boxes[1].flowables[1])} :
          /\ boxes' = << [r.box EXCEPT !.flowables[1] = r.fl],
                         r.float_space >>
          /\ flowlog' = Append(flowlog,
                [given_before |-> boxes[1].flowable_offset,
                 given_after |-> r.box.flowable_offset,
                 float_before |-> boxes[2].flowable_offset,
                 float_after |-> r.float_space.flowable_offset,
                 resumeIn |-> boxes[1].flowables[1].resume,
                 above |-> r.flow.above, linecalls |-> r.flow.linecalls,
                 below |-> r.flow.below,
                 raised |-> r.raised, result |-> r.result])
    /\ UNCHANGED <<advVars, docVars, treeVars, chains, signal>>

NextFloat ==
    \/ \E h \in 1..MaxAdv : AdvanceGiven(h)
    \/ FloatingFlowCall

SpecFloat == InitFloat /\ [][NextFloat]_vars

\* ---------------------------------------- specification: one chain alone

\* The flowable lists a RenderTarget can be given with add_flowable.
FlowableLists ==
    UNION { [1..n -> {NewFlowable(k) : k \in FlowableKinds}] :
            n \in 0..MaxFlowables }

InitChain ==
    /\ NoAdvance
    /\ boxes = <<>>
    /\ chains \in {<<NewChain(fls)>> : fls \in FlowableLists}
    /\ flowlog = <<>>
    /\ signal = Idle
    /\ NoDocument
    /\ NoPages

\* add_container that puts the new container first in the list.
AddContainerFirst(h) ==
    /\ Len(chains[1].containers) < MaxContainers
    /\ boxes' = Append(boxes, NewContainer(h, 1))
    /\ chains' = [chains EXCEPT ![1].containers = <<Len(boxes) + 1>> \o @]
    /\ signal' = Idle
    /\ UNCHANGED <<advVars, docVars, treeVars, flowlog>>

\* Container(parent, height=h, chain=chain): ContainerBase.__init__ ends
\* with chain.add_container(self).
AddContainer(h) ==
    /\ Len(chains[1].containers) < MaxContainers
    /\ boxes' = Append(boxes, NewContainer(h, 1))
    /\ chains' = [chains EXCEPT ![1].containers = Append(@, Len(boxes) + 1)]
    /\ signal' = Idle
    /\ UNCHANGED <<advVars, docVars, treeVars, flowlog>>

\* One call chain.render(), to its return or its raise.
RenderChain ==
    \E r \in {ChainRender(World, 1)} :
        /\ boxes' = r.w.boxes
        /\ chains' = r.w.chains
        /\ flowlog' = r.w.flowlog
        /\ renderlog' = r.w.renderlog
        /\ placelog' = r.w.placelog
        /\ signal' = r.exc
        /\ UNCHANGED <<advVars, docVars, pages, index, rpc, looplog>>

NextChain ==
    \/ \E h \in 0..MaxCap : AddContainer(h)
    \/ RenderChain

SpecChain == InitChain /\ [][NextChain]_vars

\* ------------------------------------ specification: Document.render

\* Document.has_converged comparing the page counts only.
HasConvergedPagesOnly == number_of_pages = previous_number_of_pages

\* Document.has_converged comparing the reference maps only.
HasConvergedRefsOnly == page_references = previous_page_references

\* Document.has_converged.
HasConverged ==
    /\ number_of_pages = previous_number_of_pages
    /\ page_references = previous_page_references

\* What pass i reports when the page count grows by one for env.k passes
\* from env.base and then stays: the count, and the references written (to
\* the last page, when the content has a reference).
RampCount(i) == env.base + (IF i < env.k THEN i ELSE env.k) - 1
RampWrites(i) ==
    IF env.ref /\ RampCount(i) >= 1 THEN [k \in Keys |-> RampCount(i)]
    ELSE EmptyMap

\* What render_loop can report in pass i: the length of the page list that
\* setup() and add_to_chain() built, and the page_references entries the
\* content wrote while it was rendered.
PassResults(i) ==
    IF env.mode = "free"
    THEN {[pages |-> n, writes |-> w] : n \in 0..MaxPages, w \in Maps(MaxPages)}
    ELSE {[pages |-> RampCount(i), writes |-> RampWrites(i)]}

\* The files load_cache can meet: none, one that cannot be read, one that
\* save_cache wrote, one cut short, and one that holds another object.
CacheFiles ==
    {MissingFile, UnreadableFile}
    \cup {CacheFile("ok", n, r) : n \in 0..MaxPages, r \in Maps(MaxPages)}
    \cup {[state |-> "ok", data |-> SubSeq(PickleDump(1, EmptyMap), 1, j)] :
             j \in 0..3}
    \cup {[state |-> "ok", data |-> <<Tok("INT", 1, {}), Tok("STOP", 0, {})>>]}

\* The Document as constructed, before render(filename) is called; the
\* attributes load_cache creates are not set yet.
NewDocument ==
    /\ dpc = "load"
    /\ cache \in CacheFiles
    /\ number_of_pages = 0
    /\ page_references = EmptyMap
    /\ previous_number_of_pages = 0
    /\ previous_page_references = EmptyMap
    /\ passes = 0
    /\ save_count = 0
    /\ write_count = 0
    /\ loaded = NothingLoaded
    /\ prevpass = NoPair
    /\ saved = NoPair
    /\ written = EmptyMap

InitDoc ==
    /\ NoAdvance
    /\ NoChain
    /\ NoPages
    /\ NewDocument
    /\ env = [mode |-> "free", k |-> 0, base |-> 0, ref |-> FALSE]

InitRamp ==
    /\ NoAdvance
    /\ NoChain
    /\ NoPages
    /\ NewDocument
    /\ env \in {[mode |-> "ramp", k |-> k, base |-> b, ref |-> r] :
                   b \in 0..MaxPages, k \in 1..(MaxPages + 1), r \in BOOLEAN}
    /\ env.base + env.k - 1 <= MaxPages

\* Document.load_cache: the pair of the file, or the cold start when open
\* raises IOError; any other exception of pickle.load or of the unpacking
\* is not caught and leaves load_cache and render.
LoadCache ==
    /\ dpc = "load"
    /\ IF cache.state # "ok"
       THEN /\ number_of_pages' = 0
            /\ previous_number_of_pages' = -1
            /\ page_references' = EmptyMap
            /\ previous_page_references' = EmptyMap
            /\ loaded' = Loaded(cache.state, 0, EmptyMap)
            /\ dpc' = "pass"
       ELSE \E l \in {PickleLoad(cache.data)} :
              IF l.exc = "none"
              THEN /\ number_of_pages' = l.pages
                   /\ page_references' = l.refs
                   /\ previous_number_of_pages' = l.pages
                   /\ previous_page_references' = l.refs
                   /\ loaded' = Loaded("ok", l.pages, l.refs)
                   /\ dpc' = "pass"
              ELSE /\ loaded' = Loaded(l.exc, 0, EmptyMap)
                   /\ dpc' = "load_error"
                   /\ UNCHANGED <<number_of_pages, page_references,
                                  previous_number_of_pages,
                                  previous_page_references>>
    /\ UNCHANGED <<env, cache, passes, save_count, write_count, prevpass,
                   saved, written>>
    /\ UNCHANGED <<advVars, chainVars, treeVars>>

\* self.number_of_pages = self.render_loop(): the content writes its
\* references into page_references while the pass renders it.
RenderLoopPass ==
    /\ dpc = "pass"
    /\ passes < MaxPasses
    /\ \E res \in PassResults(passes + 1) :
           /\ number_of_pages' = res.pages
           /\ page_references' = Override(page_references, res.writes)
           /\ written' = res.writes
    /\ prevpass' = IF passes = 0 THEN NoPair
                   ELSE Pair(number_of_pages, page_references)
    /\ passes' = passes + 1
    /\ dpc' = "test"
    /\ UNCHANGED <<env, cache, previous_number_of_pages,
                   previous_page_references, save_count, write_count, loaded,
                   saved>>
    /\ UNCHANGED <<advVars, chainVars, treeVars>>

\* The body of the while loop of Document.render up to the next pass.
RenderAgain ==
    /\ dpc = "test"
    /\ ~HasConverged
    /\ previous_number_of_pages' = number_of_pages
    /\ previous_page_references' = page_references
    /\ dpc' = "pass"
    /\ UNCHANGED <<env, cache, number_of_pages, page_references, passes,
                   save_count, write_count, loaded, prevpass, saved,
                   written>>
    /\ UNCHANGED <<advVars, chainVars, treeVars>>

\* data = (self.number_of_pages, self.page_references) with the reference
\* map of the pass before.
SaveDataPrevious == Pair(number_of_pages, previous_page_references)

\* data = (self.number_of_pages, self.page_references) of save_cache.
SaveData == Pair(number_of_pages, page_references)

\* Document.save_cache after the loop.
SaveCache ==
    /\ dpc = "test"
    /\ HasConverged
    /\ cache' = CacheFile("ok", SaveData.pages, SaveData.refs)
    /\ saved' = Pair(number_of_pages, page_references)
    /\ save_count' = save_count + 1
    /\ dpc' = "write"
    /\ UNCHANGED <<env, number_of_pages, page_references,
                   previous_number_of_pages, previous_page_references,
                   passes, write_count, loaded, prevpass, written>>
    /\ UNCHANGED <<advVars, chainVars, treeVars>>

\* Document.save_cache when the file cannot be opened for writing: the
\* IOError leaves render.
SaveCacheFails ==
    /\ dpc = "test"
    /\ HasConverged
    /\ dpc' = "failed"
    /\ UNCHANGED <<env, cache, number_of_pages, page_references,
                   previous_number_of_pages, previous_page_references,
                   passes, save_count, write_count, loaded, prevpass, saved,
                   written>>
    /\ UNCHANGED <<advVars, chainVars, treeVars>>

\* self.backend_document.write(filename).
WriteOutput ==
    /\ dpc = "write"
    /\ write_count' = write_count + 1
    /\ dpc' = "done"
    /\ UNCHANGED <<env, cache, number_of_pages, page_references,
                   previous_number_of_pages, previous_page_references,
                   passes, save_count, loaded, prevpass, saved, written>>
    /\ UNCHANGED <<advVars, chainVars, treeVars>>

NextDoc ==
    \/ LoadCache
    \/ RenderLoopPass
    \/ RenderAgain
    \/ SaveCache
    \/ SaveCacheFails
    \/ WriteOutput

SpecDoc == InitDoc /\ [][NextDoc]_vars

SpecRamp == InitRamp /\ [][NextDoc]_vars

\* ------------------------- specification: save_cache, then load_cache

\* A Document that holds any pair, about to call save_cache(filename);
\* whatever file is there is overwritten.
InitCache ==
    /\ NoAdvance
    /\ NoChain
    /\ NoPages
    /\ env = [mode |-> "free", k |-> 0, base |-> 0, ref |-> FALSE]
    /\ dpc = "save"
    /\ cache \in CacheFiles
    /\ number_of_pages \in 0..MaxPages
    /\ page_references \in Maps(MaxPages)
    /\ previous_number_of_pages \in {-1} \cup 0..MaxPages
    /\ previous_page_references \in Maps(MaxPages)
    /\ passes = 0
    /\ save_count = 0
    /\ write_count = 0
    /\ loaded = NothingLoaded
    /\ prevpass = NoPair
    /\ saved = NoPair
    /\ written = EmptyMap

\* Document.save_cache called on its own.
SaveCacheAlone ==
    /\ dpc = "save"
    /\ cache' = CacheFile("ok", SaveData.pages, SaveData.refs)
    /\ saved' = Pair(number_of_pages, page_references)
    /\ save_count' = save_count + 1
    /\ dpc' = "fresh"
    /\ UNCHANGED <<env, number_of_pages, page_references,
                   previous_number_of_pages, previous_page_references,
                   passes, write_count, loaded, prevpass, written>>
    /\ UNCHANGED <<advVars, chainVars, treeVars>>

\* A new Document is constructed for the same output name; its load_cache
\* comes next.
FreshDocument ==
    /\ dpc = "fresh"
    /\ number_of_pages' = 0
    /\ page_references' = EmptyMap
    /\ previous_number_of_pages' = 0
    /\ previous_page_references' = EmptyMap
    /\ dpc' = "load"
    /\ UNCHANGED <<env, cache, passes, save_count, write_count, loaded,
                   prevpass, saved, written>>
    /\ UNCHANGED <<advVars, chainVars, treeVars>>

NextCache ==
    \/ SaveCacheAlone
    \/ FreshDocument
    \/ LoadCache

SpecCache == InitCache /\ [][NextCache]_vars

\* ------------------------------------------------- the container tree

\* for flowable in self.flowables: self.flow(flowable), from flowable i on;
\* an EndOfContainer of a flow call is not caught.
RECURSIVE FlowOwn(_, _, _)
FlowOwn(w, b, i) ==
    IF i > Len(w.boxes[b].flowables) THEN [w |-> w, exc |-> NoExc]
    ELSE Only({ IF r.raised THEN [w |-> r.w, exc |-> EndOfContainer]
                ELSE FlowOwn(r.w, b, i + 1)
              : r \in { [w |-> [w EXCEPT
                                  !.boxes[b] =
                                      [x.box EXCEPT !.flowables[i] = x.fl],
                                  !.flowlog = Append(@,
                                      LogEntry(0, i - 1, b, w.boxes[b],
                                               w.boxes[b].flowables[i], x))],
                         raised |-> x.raised]
                      : x \in {Flow(w.boxes[b], w.boxes[b].flowables[i])} } })

\* ContainerBase.render, and its loop over the children from child i on
\* with the EndOfPage caught so far.  Only EndOfPage is caught: an
\* EndOfContainer of a child or of an own flowable leaves render at once.
RECURSIVE RenderBox(_, _)
RECURSIVE RenderChildren(_, _, _, _)
RenderChildren(w, b, i, eop) ==
    IF i > Len(w.boxes[b].children)
    THEN [w |-> w, exc |-> NoExc, end_of_page |-> eop]
    ELSE Only({ IF r.exc.kind = "EndOfPage"
                THEN RenderChildren(r.w, b, i + 1, r.exc)
                ELSE IF r.exc.kind = "EndOfContainer"
                THEN [w |-> r.w, exc |-> r.exc, end_of_page |-> eop]
                ELSE RenderChildren(r.w, b, i + 1, eop)
              : r \in {RenderBox(w, w.boxes[b].children[i])} })

RenderBox(w, b) ==
    Only({ IF rc.exc.kind = "EndOfContainer"
           THEN [w |-> rc.w, exc |-> rc.exc]
           ELSE Only({ IF own.exc.kind \in {"EndOfContainer", "EndOfPage"}
                       THEN own
                       ELSE [w |-> own.w, exc |-> rc.end_of_page]
                     : own \in { IF Len(rc.w.boxes[b].flowables) > 0
                                 THEN FlowOwn(rc.w, b, 1)
                                 ELSE IF rc.w.boxes[b].chain # 0
                                 THEN ChainRender(rc.w, rc.w.boxes[b].chain)
                                 ELSE [w |-> rc.w, exc |-> NoExc] } })
         : rc \in {RenderChildren([w EXCEPT !.renderlog = Append(@, b)],
                                  b, 1, NoExc)} })

\* ContainerBase.place: the children first, then this container's canvas
\* is appended to its parent's.
RECURSIVE PlaceBox(_, _)
RECURSIVE PlaceChildren(_, _, _)
PlaceChildren(w, b, i) ==
    IF i > Len(w.boxes[b].children) THEN w
    ELSE PlaceChildren(PlaceBox(w, w.boxes[b].children[i]), b, i + 1)

PlaceBox(w, b) ==
    Only({ [w1 EXCEPT !.placelog =
                Append(@, [box |-> b, rendered |-> Len(w1.renderlog),
                           flowed |-> Len(w1.flowlog)])]
         : w1 \in {PlaceChildren(w, b, 1)} })

\* Page.render: the tree is rendered, EndOfPage is kept, the children are
\* placed, EndOfPage is raised again.
PageRender(w, p) ==
    Only({ IF r.exc.kind = "EndOfContainer" THEN r
           ELSE [w |-> PlaceChildren(r.w, p, 1), exc |-> r.exc]
         : r \in {RenderBox(w, p)} })

\* ----------------------------------------- specification: render_loop

\* Most pages render_loop is followed to.
MaxPageList == 6
\* Most child containers of the page setup() builds.
MaxChildren == 2

\* What setup() can build: one page whose child containers each have a
\* height and either flowables of their own or one of two chains.
ChildSpecs ==
    [height : 1..MaxCap, content : {"own", "chain1", "chain2"}]
Layouts == UNION {[1..n -> ChildSpecs] : n \in 1..MaxChildren}

ChainOfContent(c) == IF c = "chain1" THEN 1 ELSE IF c = "chain2" THEN 2 ELSE 0

\* The containers of layout lay bound to chain k, in construction order.
RECURSIVE ChainBoxes(_, _, _)
ChainBoxes(lay, k, i) ==
    IF i > Len(lay) THEN <<>>
    ELSE (IF ChainOfContent(lay[i].content) = k THEN <<i + 1>> ELSE <<>>)
         \o ChainBoxes(lay, k, i + 1)

\* Page(document, paper): a Container without parent, flowables or chain.
NewPage(children) ==
    [NewContainer(MaxCap, 0) EXCEPT !.kind = "page", !.children = children]

\* self.pages when render_loop is entered: nothing in the first pass, the
\* page list of the pass before in a later one.
PageListsBefore == {<<>>, <<1>>, <<1, 3>>}

InitLoop ==
    /\ NoAdvance
    /\ NoChain
    /\ NoDocument
    /\ pages \in PageListsBefore
    /\ index = 0
    /\ rpc = "setup"
    /\ renderlog = <<>>
    /\ placelog = <<>>
    /\ looplog = <<>>

\* One thing render_loop did: setup() built count pages, a page was
\* rendered and its render ended with exc (carrying chain), add_to_chain
\* was called with chain and added page, or count was returned.
Event(ev, page, exc, chain, count) ==
    [ev |-> ev, page |-> page, exc |-> exc, chain |-> chain, count |-> count]

\* render_loop without `self.pages = []`: setup() adds its page to the list
\* the pass before left.
SetupPagesKeepsList ==
    /\ rpc = "setup"
    /\ \E lay \in Layouts : \E fls \in FlowableLists :
          /\ Len(fls) > 0
          /\ boxes' = <<NewPage([i \in 1..Len(lay) |-> i + 1])>>
                \o [i \in 1..Len(lay) |->
                      [NewContainer(lay[i].height,
                                    ChainOfContent(lay[i].content))
                       EXCEPT !.flowables =
                           IF lay[i].content = "own" THEN fls ELSE <<>>]]
          /\ chains' = [k \in 1..2 |->
                          [NewChain(fls) EXCEPT
                               !.containers = ChainBoxes(lay, k, 1)]]
    /\ pages' = pages \o <<1>>
    /\ index' = 0
    /\ rpc' = "loop"
    /\ looplog' = <<Event("setup", 0, "none", 0, 1)>>
    /\ UNCHANGED <<advVars, docVars, flowlog, signal, renderlog, placelog>>

\* self.pages = []; self.setup(); index = 0.
SetupPages ==
    /\ rpc = "setup"
    /\ \E lay \in Layouts : \E fls \in FlowableLists :
          /\ Len(fls) > 0
          /\ boxes' = <<NewPage([i \in 1..Len(lay) |-> i + 1])>>
                \o [i \in 1..Len(lay) |->
                      [NewContainer(lay[i].height,
                                    ChainOfContent(lay[i].content))
                       EXCEPT !.flowables =
                           IF lay[i].content = "own" THEN fls ELSE <<>>]]
          /\ chains' = [k \in 1..2 |->
                          [NewChain(fls) EXCEPT
                               !.containers = ChainBoxes(lay, k, 1)]]
    /\ pages' = <<1>>
    /\ index' = 0
    /\ rpc' = "loop"
    /\ looplog' = <<Event("setup", 0, "none", 0, 1)>>
    /\ UNCHANGED <<advVars, docVars, flowlog, signal, renderlog, placelog>>

\* add_to_chain(chain): one new page holding one new container bound to
\* the chain, as high as the chain's last container.
AddToChain(w, k) ==
    LET p  == Len(w.boxes) + 1
        cs == w.chains[k].containers
        h  == w.boxes[cs[Len(cs)]].height
    IN  [w EXCEPT !.boxes = @ \o <<NewPage(<<p + 1>>), NewContainer(h, k)>>,
                  !.chains[k].containers = Append(@, p + 1)]

\* One turn of the loop of render_loop: the page is rendered; on EndOfPage
\* add_to_chain is called with the chain the exception carries; an
\* EndOfContainer is not caught and leaves render_loop.
RenderPage ==
    /\ rpc = "loop"
    /\ index < Len(pages)
    /\ \E r \in {PageRender(World, pages[index + 1])} :
       \E w \in {IF r.exc.kind = "EndOfPage"
                 THEN AddToChain(r.w, r.exc.chain) ELSE r.w} :
           /\ r.exc.kind = "EndOfPage" => Len(pages) < MaxPageList
           /\ boxes' = w.boxes
           /\ chains' = w.chains
           /\ flowlog' = w.flowlog
           /\ renderlog' = w.renderlog
           /\ placelog' = w.placelog
           /\ pages' = IF r.exc.kind = "EndOfPage"
                       THEN Append(pages, Len(r.w.boxes) + 1) ELSE pages
           /\ looplog' = looplog
                 \o <<Event("render", pages[index + 1], r.exc.kind,
                             r.exc.chain, Len(pages))>>
                 \o (IF r.exc.kind = "EndOfPage"
                     THEN <<Event("add_to_chain", Len(r.w.boxes) + 1, "none",
                                  r.exc.chain, Len(pages) + 1)>>
                     ELSE <<>>)
           /\ rpc' = IF r.exc.kind = "EndOfContainer" THEN "raised"
                     ELSE "loop"
    /\ index' = index + 1
    /\ UNCHANGED <<advVars, docVars, signal>>

\* return len(self.pages).
ReturnPageCount ==
    /\ rpc = "loop"
    /\ index >= Len(pages)
    /\ rpc' = "returned"
    /\ looplog' = Append(looplog, Event("return", 0, "none", 0, Len(pages)))
    /\ UNCHANGED <<advVars, chainVars, docVars, pages, index, renderlog,
                   placelog>>

NextLoop ==
    \/ SetupPages
    \/ RenderPage
    \/ ReturnPageCount

SpecLoop == InitLoop /\ [][NextLoop]_vars

\* ------------------------------------------------ claims: advance calls

RECURSIVE SumTo(_, _)
SumTo(s, i) == IF i = 0 THEN 0 ELSE SumTo(s, i - 1) + s[i].h

Least(S) == IF S = {} THEN 0 ELSE CHOOSE i \in S : \A j \in S : i <= j

\* The first call that raised, and the first call whose running sum exceeds
\* m (0 when there is none).
FirstRaise == Least({i \in 1..Len(calls) : calls[i].raised})
FirstExceed(m) == Least({i \in 1..Len(calls) : SumTo(calls, i) > m})

\* C6: on a bounded Container of height H the first advance call that raises
\* EndOfContainer is the first call whose running sum exceeds H (a running
\* sum equal to H does not raise), and the offset just before that call is
\* the sum of the heights advanced so far.
C6_FirstOverflow ==
    box.kind = "bounded" =>
        /\ FirstRaise = FirstExceed(box.height)
        /\ FirstRaise # 0 =>
               calls[FirstRaise].before = SumTo(calls, FirstRaise - 1)

\* C6 witness: a container filled exactly to its height by an earlier call
\* that did not raise, and a later call that raised.
C6_Witness ==
    /\ box.kind = "bounded"
    /\ FirstRaise >= 2
    /\ \E j \in 1..(FirstRaise - 1) :
           calls[j].h > 0 /\ SumTo(calls, j) = box.height

\* C7: on an ExpandingContainer with cap M (M = 0 included) height is the
\* cumulative advanced amount after every call whose cumulative amount is
\* <= M, EndOfContainer is raised exactly at the call where the cumulative
\* amount exceeds M, and height never exceeds M; without a cap advance
\* never raises.
C7_ExpandingCap ==
    box.kind = "expanding" =>
        IF box.max_height = None
        THEN FirstRaise = 0
        ELSE /\ \A i \in 1..Len(calls) :
                    SumTo(calls, i) <= box.max_height =>
                        calls[i].height = SumTo(calls, i) /\ ~calls[i].raised
             /\ FirstRaise = FirstExceed(box.max_height)
             /\ box.height <= box.max_height

\* The same statement for caps of at least one.
C7_PositiveCap == box.max_height # 0 => C7_ExpandingCap


\* ------------------------------------------- claims: construction

\* The arguments of one axis do not determine the three edges: fewer than
\* two of them are given.
Insufficient(lo, size, hi) ==
    Cardinality({i \in 1..3 : <<lo, size, hi>>[i] # None}) < 2

\* All three are given and disagree.
Contradictory(lo, size, hi) ==
    lo # None /\ size # None /\ hi # None /\ hi # lo + size

\* C13: constructing a Container fails with a Configuration error whenever
\* the given subset of {left, width, right}, or of {top, height, bottom},
\* is insufficient or contradictory; no missing value is defaulted and no
\* supplied value is overridden.
C13_ConfigurationError ==
    LET a == made.args
    IN  ( made.done /\ ( Insufficient(a[1], a[2], a[3])
                         \/ Contradictory(a[1], a[2], a[3])
                         \/ Insufficient(a[4], a[5], a[6])
                         \/ Contradictory(a[4], a[5], a[6]) ) )
        => made.exc = "ConfigurationError"

\* What the constructor does keep: from a sufficient and consistent subset
\* it resolves the three edges with every supplied value kept, and
\* right = left + width, bottom = top + height.
C13_SufficientResolved ==
    LET a == made.args
    IN  ( made.done /\ ~Insufficient(a[1], a[2], a[3])
                     /\ ~Contradictory(a[1], a[2], a[3])
                     /\ ~Insufficient(a[4], a[5], a[6])
                     /\ ~Contradictory(a[4], a[5], a[6]) )
        => /\ made.exc = "none"
           /\ a[1] # None => made.left = a[1]
           /\ a[2] # None => made.width = a[2]
           /\ a[3] # None => made.right = a[3]
           /\ a[4] # None => made.top = a[4]
           /\ a[5] # None => made.height = a[5]
           /\ a[6] # None => made.bottom = a[6]
           /\ made.right = made.left + made.width
           /\ made.bottom = made.top + made.height

\* ---------------------------------------------------- claims: floating

\* C14: Floating.flow(container) flows the content into
\* container.float_space only: the cursor offset of the given container
\* is the same after the call as before it, also when the flow raised,
\* the float space's offset moved by what was flowed, and every call that
\* returns returns 0, whatever the height of the content.
C14_FloatingFrame ==
    \A i \in 1..Len(flowlog) :
        LET e  == flowlog[i]
            fl == boxes[1].flowables[1]
        IN  /\ e.given_after = e.given_before
            /\ e.float_after - e.float_before =
                   (IF e.above THEN fl.space_above ELSE 0)
                   + e.linecalls
                   + (IF e.below THEN fl.space_below ELSE 0)
            /\ ~e.raised => e.result = 0

\* C14 witness: a container whose cursor was moved, and a Floating of
\* three units of height that was flowed and returned.
C14_Witness ==
    /\ Len(flowlog) = 1
    /\ ~flowlog[1].raised
    /\ flowlog[1].given_before > 0
    /\ flowlog[1].float_after - flowlog[1].float_before = 3
    /\ flowlog[1].result = 0

\* Floating.flow raises only when the float space is full: the given
\* container's room plays no part.
C14_RaisesOnlyOnFullFloatSpace ==
    \A i \in 1..Len(flowlog) :
        flowlog[i].raised =>
            /\ boxes[2].max_height # None \/ boxes[2].kind = "bounded"
            /\ flowlog[i].float_after >
                  (IF boxes[2].kind = "bounded" THEN boxes[2].height
                   ELSE boxes[2].max_height)

\* ------------------------------------------------------ claims: the chain

\* The flowable a logged flow call was made on (its style does not change).
FlowableOf(e) ==
    IF e.chain = 0 THEN boxes[e.box].flowables[e.f + 1]
    ELSE chains[e.chain].flowables[e.f + 1]

\* The place of container b in the chain's container list.
PosIn(k, b) ==
    CHOOSE p \in 1..Len(chains[k].containers) : chains[k].containers[p] = b

\* The flow calls that returned normally before call i.
CompletedBefore(i) == Cardinality({j \in 1..(i - 1) : ~flowlog[j].raised})

\* The advance requests of a flowable list, in order: the space above, one
\* per line, the space below.
RECURSIVE Requests(_, _)
Requests(fls, i) ==
    IF i > Len(fls) THEN <<>>
    ELSE <<[tag |-> "above", h |-> fls[i].space_above]>>
         \o [j \in 1..fls[i].lines |-> [tag |-> "line", h |-> 1]]
         \o <<[tag |-> "below", h |-> fls[i].space_below]>>
         \o Requests(fls, i + 1)

\* First fit of a request list into containers of the given capacities,
\* taken in order: the place of the container each flowable is completed in.
\* A space below that does not fit is clipped, a space above that does not
\* fit is dropped with the container, a line that does not fit opens the
\* next container.
RECURSIVE FirstFit(_, _, _, _, _)
FirstFit(reqs, i, caps, c, off) ==
    IF i > Len(reqs) \/ c > Len(caps) THEN <<>>
    ELSE LET r == reqs[i]
         IN  IF r.tag = "below"
             THEN <<c>> \o FirstFit(reqs, i + 1, caps, c, off + r.h)
             ELSE IF off + r.h <= caps[c]
             THEN FirstFit(reqs, i + 1, caps, c, off + r.h)
             ELSE IF r.tag = "above"
             THEN FirstFit(reqs, i + 1, caps, c + 1, 0)
             ELSE FirstFit(reqs, i, caps, c + 1, 0)

ChainCaps(k) ==
    [p \in 1..Len(chains[k].containers) |->
        boxes[chains[k].containers[p]].height]

\* C1: Chain.render places the flowables strictly in list order: every flow
\* call is made on the first flowable not yet completed (none skipped, none
\* completed twice, no lookahead), the flowable that overflowed a container
\* is the first one attempted in the next container, the containers are
\* used in non-decreasing order, a container whose flow call raised is
\* never flowed into again, and the assignment is the first-fit function of
\* the capacities and the flowables alone, whenever render was called.
C1_InOrderFirstFit ==
    LET ch   == chains[1]
        n    == Len(flowlog)
        fit  == FirstFit(Requests(ch.flowables, 1), 1, ChainCaps(1), 1, 0)
    IN  /\ \A i \in 1..n : flowlog[i].f = CompletedBefore(i)
        /\ ch.flowable_index = CompletedBefore(n + 1)
        /\ \A i \in 1..(n - 1) :
              /\ PosIn(1, flowlog[i].box) <= PosIn(1, flowlog[i + 1].box)
              /\ flowlog[i].raised =>
                    PosIn(1, flowlog[i + 1].box) = PosIn(1, flowlog[i].box) + 1
        /\ \A i \in 1..n : \A j \in (i + 1)..n :
              flowlog[i].raised => flowlog[j].box # flowlog[i].box
        /\ \A i \in 1..n :
              ~flowlog[i].raised =>
                  /\ flowlog[i].f + 1 <= Len(fit)
                  /\ fit[flowlog[i].f + 1] = PosIn(1, flowlog[i].box)
        /\ ch.container_index = Len(ch.containers) =>
              ch.flowable_index = Len(fit)

\* C1 witness: two flowables completed, one of them after it overflowed a
\* container and was taken up again in the next one.
C1_Witness ==
    /\ Len(chains[1].flowables) = 2
    /\ chains[1].flowable_index = 2
    /\ \E i \in 1..Len(flowlog) : flowlog[i].raised /\ flowlog[i].linecalls > 1

\* C2: every call of Chain.render ends with EndOfPage carrying the chain if
\* and only if the chain then has no further container and flowables remain
\* (also on a chain without containers and on a repeated call).
C2_SignalIff ==
    signal # Idle =>
        ( signal = EndOfPage(1)
          <=> /\ chains[1].container_index >= Len(chains[1].containers)
              /\ chains[1].flowable_index < Len(chains[1].flowables) )

\* C8: Flowable.flow advances the container by space_above if and only if
\* resume is false on entry; the offset moves by space_above (when resume
\* was false), by the lines attempted and by space_below (when the content
\* was completed), and by nothing else.
C8_SpaceAboveIffNotResumed ==
    \A i \in 1..Len(flowlog) :
        LET e  == flowlog[i]
            fl == FlowableOf(e)
        IN  /\ e.above <=> ~e.resumeIn
            /\ e.after - e.before =
                   (IF e.resumeIn THEN 0 ELSE fl.space_above)
                   + e.linecalls
                   + (IF e.below THEN fl.space_below ELSE 0)

\* C8 witness: a flowable with a space above that overflowed in mid-content
\* and was continued, resumed, on the next container.
C8_Witness ==
    \E i \in 2..Len(flowlog) :
        /\ flowlog[i].resumeIn
        /\ flowlog[i].f = flowlog[i - 1].f
        /\ flowlog[i - 1].linecalls > 0
        /\ FlowableOf(flowlog[i]).space_above > 0
        /\ ~flowlog[i].raised


\* The flow calls whose space_above advance raised EndOfContainer.
SpaceAboveRaised(e) == e.above /\ e.raised /\ e.linecalls = 0

\* C16: when the space_above advance of Flowable.flow raises
\* EndOfContainer, the flowable's resume flag is still false when the
\* exception reaches the caller.
C16_ResumeFalseWhenSpaceAboveRaises ==
    \A i \in 1..Len(flowlog) :
        SpaceAboveRaised(flowlog[i]) => ~flowlog[i].resumeOut

\* What the code does instead: resume is true after every flow call that
\* raised, so the next call on the flowable skips its space_above.
C16_ResumeTrueAfterEveryRaise ==
    \A i \in 1..Len(flowlog) :
        /\ flowlog[i].resumeOut = flowlog[i].raised
        /\ (i > 1 /\ flowlog[i - 1].raised) => ~flowlog[i].above

\* The cursor offset of a container never moves back: no flow call lowers
\* it, and a later call on the same container starts where the earlier
\* one ended or further down.
CursorMonotone ==
    /\ \A i \in 1..Len(flowlog) : flowlog[i].before <= flowlog[i].after
    /\ \A i \in 1..Len(flowlog) : \A j \in (i + 1)..Len(flowlog) :
           flowlog[i].box = flowlog[j].box =>
               flowlog[i].after <= flowlog[j].before
    /\ \A i \in 1..Len(flowlog) :
           flowlog[i].after <= boxes[flowlog[i].box].flowable_offset

\* C17: in every state of a bounded Container during rendering, also after
\* an advance that raised EndOfContainer and after a swallowed space_below
\* overflow, the cursor offset has not moved back and is at most the
\* container's height.
C17_CursorWithinHeight ==
    /\ CursorMonotone
    /\ \A b \in 1..Len(boxes) :
           boxes[b].kind = "bounded" =>
               boxes[b].flowable_offset <= boxes[b].height

\* The part of C17 that holds: the offset never moves back, and it passes
\* the height only by advances that raised or were swallowed.
C17_CursorMonotoneOnly ==
    /\ CursorMonotone
    /\ \A b \in 1..Len(boxes) :
           boxes[b].flowable_offset > boxes[b].height =>
               \E i \in 1..Len(flowlog) :
                   /\ flowlog[i].box = b
                   /\ flowlog[i].after > boxes[b].height
                   /\ flowlog[i].raised \/ flowlog[i].below

\* Both indices of a chain lie within their sequences.
IndicesInRange(ch) ==
    /\ 0 <= ch.container_index /\ ch.container_index <= Len(ch.containers)
    /\ 0 <= ch.flowable_index /\ ch.flowable_index <= Len(ch.flowables)

\* One step leaves the indices of chain k where they were or moves them
\* up, and keeps the containers the chain had, in their places.
IndicesGrow(k) ==
    /\ chains'[k].container_index >= chains[k].container_index
    /\ chains'[k].flowable_index >= chains[k].flowable_index
    /\ Len(chains'[k].containers) >= Len(chains[k].containers)
    /\ SubSeq(chains'[k].containers, 1, Len(chains[k].containers))
           = chains[k].containers

\* C18: under any interleaving of render and add_container calls,
\* 0 <= container_index <= number of containers and
\* 0 <= flowable_index <= number of flowables in every state, neither
\* index ever decreases, and the container sequence is only appended to.
C18_ChainIndices ==
    /\ [](\A k \in 1..Len(chains) : IndicesInRange(chains[k]))
    /\ [][\A k \in 1..Len(chains) : IndicesGrow(k)]_vars

\* C18 witness: after containers were added between render calls, both
\* indices stand at the ends of their sequences.
C18_Witness ==
    /\ Len(chains[1].containers) >= 2
    /\ chains[1].container_index = Len(chains[1].containers)
    /\ Len(chains[1].flowables) = 2
    /\ chains[1].flowable_index = 2
    /\ \E i \in 1..Len(flowlog) : flowlog[i].raised

\* C19: a flow call whose content rendered completely, so that the
\* space_below advance was made, returns normally with resume false also
\* when that advance overflowed; Chain.render counts the flowable as
\* consumed and goes on with the next flowable in the same container, and
\* after a swallowed overflow that next flow call is the one that raises
\* (when the flowable was the last one, render returns without EndOfPage).
C19_SpaceBelowSwallowed ==
    \A i \in 1..Len(flowlog) :
        LET e == flowlog[i]
        IN  e.below =>
              /\ ~e.raised
              /\ ~e.resumeOut
              /\ IF i < Len(flowlog)
                 THEN /\ flowlog[i + 1].f = e.f + 1
                      /\ flowlog[i + 1].box = e.box
                      /\ e.after > boxes[e.box].height =>
                             flowlog[i + 1].raised
                 ELSE /\ chains[1].flowable_index = e.f + 1
                      /\ e.f + 1 = Len(chains[1].flowables)
                      /\ signal.kind # "EndOfPage"

\* C19 witness: a flowable whose space below did not fit any more,
\* consumed all the same, and the next flowable raising in that container.
C19_Witness ==
    \E i \in 1..(Len(flowlog) - 1) :
        /\ flowlog[i].below
        /\ FlowableOf(flowlog[i]).space_below > 0
        /\ flowlog[i].before <= boxes[flowlog[i].box].height
        /\ flowlog[i].after > boxes[flowlog[i].box].height
        /\ flowlog[i + 1].raised
        /\ chains[1].flowable_index >= flowlog[i].f + 1

\* ---------------------------------------------- claims: Document.render

\* The iteration cap of the convergence loop.
IterationCap == 10

\* C3: Document.render performs at most IterationCap render_loop passes.
C3_AtMostCapPasses == passes <= IterationCap

\* What the first pass of the growing document leaves, and the pair the
\* document is stable at.
RampFirst == Pair(RampCount(1), Override(loaded.refs, RampWrites(1)))
RampStable == Pair(RampCount(env.k), Override(loaded.refs, RampWrites(env.k)))
RampEnded ==
    /\ passes = env.k + 1
    /\ Pair(number_of_pages, page_references) = RampStable
    /\ dpc \in {"write", "done"} =>
           cache = CacheFile("ok", RampStable.pages, RampStable.refs)

\* C4 as stated: whatever the cache held, when the page count grows for k
\* passes and then stays, Document.render performs exactly k+1 passes and
\* saves the stable pair.
C4_ExactlyKPlusOne ==
    dpc \in {"write", "done", "failed"} => RampEnded

\* C4 amended: the same when the cache was missing or held a pair other
\* than the one the first pass leaves; when the cache held that very pair,
\* render performs one pass and saves the pair again.
C4_ExactlyKPlusOneColdOrStale ==
    dpc \in {"write", "done", "failed"} =>
        IF loaded.state = "ok" /\ Pair(loaded.pages, loaded.refs) = RampFirst
        THEN /\ passes = 1
             /\ dpc \in {"write", "done"} =>
                    cache = CacheFile("ok", RampFirst.pages, RampFirst.refs)
        ELSE RampEnded

\* C4 witness: a loaded cache that differs from the first pass, three
\* growing passes, a fourth one that repeats the third, and the pair saved.
C4_Witness ==
    /\ dpc = "done"
    /\ loaded.state = "ok"
    /\ env.k = 3
    /\ env.ref
    /\ passes = 4

\* C5: save_cache and write happen at most once each, the save before the
\* write, and only when the pair left by the last pass equals the pair it
\* was compared against: the one of the pass before, or the loaded cache
\* for the first pass.
C5_SaveThenWriteConverged ==
    /\ save_count <= 1
    /\ write_count <= save_count
    /\ (dpc = "done") = (write_count = 1)
    /\ (dpc \in {"write", "done"}) = (save_count = 1)
    /\ save_count = 1 =>
           /\ passes >= 1
           /\ Pair(number_of_pages, page_references) =
                  (IF passes = 1 THEN Pair(loaded.pages, loaded.refs)
                   ELSE prevpass)
           /\ passes = 1 => loaded.state = "ok"

\* C5 witness: the output written after a pass that changed the reference
\* map and a later one that left pair and map as they were.
C5_Witness ==
    /\ dpc = "done"
    /\ passes >= 3
    /\ page_references # loaded.refs
    /\ write_count = 1

\* ------------------------------------------------- claims: the cache

\* C11: load_cache turns every read failure (file missing, unreadable, cut
\* short, or not holding a pair) into a cold start: no error leaves
\* load_cache, and number_of_pages is 0 and page_references empty after it.
C11_ReadFailureColdStart ==
    /\ dpc # "load_error"
    /\ (dpc = "pass" /\ passes = 0 /\ loaded.state # "ok") =>
           number_of_pages = 0 /\ page_references = EmptyMap

\* The part of C11 about the failures of open(): a missing or unreadable
\* file gives the cold start.
C11_OpenFailureColdStart ==
    (dpc = "pass" /\ passes = 0 /\ cache.state # "ok") =>
        /\ number_of_pages = 0 /\ page_references = EmptyMap
        /\ previous_number_of_pages = -1
        /\ previous_page_references = EmptyMap

\* C12: after save_cache on a Document holding (p, r) and load_cache on a
\* fresh Document, the fresh Document has number_of_pages = p and
\* page_references = r, its previous-pass pair is (p, r) as well, and no
\* error left load_cache.
C12_SaveLoadRoundTrip ==
    (save_count = 1 /\ dpc \in {"pass", "load_error"}) =>
        /\ dpc = "pass"
        /\ Pair(number_of_pages, page_references) = saved
        /\ Pair(previous_number_of_pages, previous_page_references) = saved

\* C12 witness: a pair with pages and a reference, saved and then loaded
\* by the fresh Document.
C12_Witness ==
    /\ dpc = "pass"
    /\ save_count = 1
    /\ saved.pages = MaxPages
    /\ DOMAIN saved.refs # {}
    /\ number_of_pages = MaxPages
    /\ loaded.state = "ok"

\* ------------------------------------------------- claims: render_loop

\* C9: no EndOfContainer leaves render_loop, whatever the page tree; every
\* overflow is handled and render_loop returns a page count.
C9_NoEndOfContainerEscapes == rpc # "raised"

\* C10: ContainerBase.render calls render on every child, also after an
\* earlier child raised EndOfContainer or EndOfPage, and flows its own
\* flowables, before the overflow is raised again.
C10_AllChildrenAttempted ==
    \A i \in 1..Len(renderlog) :
        LET b == boxes[renderlog[i]]
        IN  /\ \A j \in 1..Len(b.children) :
                   \E m \in 1..Len(renderlog) : renderlog[m] = b.children[j]
            /\ Len(b.flowables) > 0 =>
                   \E m \in 1..Len(flowlog) :
                       flowlog[m].chain = 0 /\ flowlog[m].box = renderlog[i]

\* The part of C10 about EndOfPage: after a child raised EndOfPage the
\* later children are rendered all the same.
C10_AfterEndOfPage ==
    rpc # "raised" => C10_AllChildrenAttempted

\* Every flowable of every chain fits in each of the chain's containers
\* when the container is empty (the space below may be clipped).
AllFit ==
    \A k \in 1..Len(chains) :
        \A p \in 1..Len(chains[k].containers) :
            \A f \in 1..Len(chains[k].flowables) :
                chains[k].flowables[f].space_above + chains[k].flowables[f].lines
                    <= boxes[chains[k].containers[p]].height

\* The chains that feed a container of the document.
UsedChains == {k \in 1..Len(chains) : Len(chains[k].containers) > 0}

\* C15: when every flowable fits in an empty container (add_to_chain
\* appends one page with one container of the chain), render_loop ends
\* within the page bound and, when it returns, every chain has consumed all
\* its flowables, also when two chains raised EndOfPage on the same page.
C15_AllFlowablesConsumed ==
    AllFit =>
        /\ Len(pages) < MaxPageList
        /\ rpc = "returned" =>
               \A k \in UsedChains :
                   chains[k].flowable_index = Len(chains[k].flowables)

\* The same for a document with one chain.
C15_OneChain ==
    Cardinality(UsedChains) <= 1 => C15_AllFlowablesConsumed

\* The page renders of the pass and its add_to_chain calls, in order.
RenderEvents == SelectSeq(looplog, LAMBDA e : e.ev = "render")
AddEvents == SelectSeq(looplog, LAMBDA e : e.ev = "add_to_chain")

\* C20: in one render_loop pass the page list holds the pages setup()
\* built and the pages add_to_chain appended, and no others; the pages
\* are rendered once each in list order, appended ones included;
\* add_to_chain is called once after each page render that ended with
\* EndOfPage, with the chain that exception carries and before the next
\* page is rendered, and at no other time; the page count returned is the
\* final length of the page list, all of whose pages were rendered.
C20_PassStructure ==
    rpc \in {"loop", "returned", "raised"} =>
        /\ looplog[1].ev = "setup"
        /\ \A i \in 2..Len(looplog) : looplog[i].ev # "setup"
        /\ Len(pages) = looplog[1].count + Len(AddEvents)
        /\ Len(RenderEvents) = index
        /\ index <= Len(pages)
        /\ \A j \in 1..Len(RenderEvents) : RenderEvents[j].page = pages[j]
        /\ \A j \in 1..Len(AddEvents) :
               AddEvents[j].page = pages[looplog[1].count + j]
        /\ \A i \in 1..Len(looplog) :
               /\ (looplog[i].ev = "render" /\ looplog[i].exc = "EndOfPage") =>
                      /\ i < Len(looplog)
                      /\ looplog[i + 1].ev = "add_to_chain"
                      /\ looplog[i + 1].chain = looplog[i].chain
                      /\ boxes[boxes[looplog[i + 1].page].children[1]].chain
                            = looplog[i].chain
               /\ looplog[i].ev = "add_to_chain" =>
                      /\ looplog[i - 1].ev = "render"
                      /\ looplog[i - 1].exc = "EndOfPage"
        /\ rpc = "returned" =>
               /\ looplog[Len(looplog)].ev = "return"
               /\ looplog[Len(looplog)].count = Len(pages)
               /\ index = Len(pages)
        /\ \A i \in 1..(Len(looplog) - 1) : looplog[i].ev # "return"

\* C20 witness: a pass that returned three pages, two of them appended by
\* add_to_chain for the second chain.
C20_Witness ==
    /\ rpc = "returned"
    /\ Len(pages) = 3
    /\ Len(AddEvents) = 2
    /\ \A j \in 1..2 : AddEvents[j].chain = 2

\* ------------------------------------------------ claims C21 and C22

\* The positions of Document.render at which a pass has ended: the
\* convergence test, and after save_cache.
PassEnded == dpc \in {"test", "write", "done"}

\* C21: at the end of each render_loop pass the reference map that the
\* convergence test compares and that save_cache writes holds exactly the
\* entries written during that pass, with none left over from the loaded
\* cache or from an earlier pass.
C21_MapHoldsPassWrites ==
    /\ PassEnded => page_references = written
    /\ (dpc \in {"write", "done"}) => saved.refs = written

\* C21, what the map does hold: every entry written during the last pass,
\* and under every other key what the map held before that pass (from the
\* loaded cache when it was the first pass).
C21_MapAccumulates ==
    PassEnded =>
        /\ \A k \in DOMAIN written : page_references[k] = written[k]
        /\ passes = 1 =>
               page_references = Override(loaded.refs, written)
        /\ passes > 1 =>
               page_references = Override(prevpass.refs, written)

\* The containers of the tree below page p, p included (the pages setup()
\* and add_to_chain build hold their containers as children).
TreeOf(p) == {p} \cup {boxes[p].children[j] : j \in 1..Len(boxes[p].children)}

\* The place calls made on container c.
PlacesOf(c) == {i \in 1..Len(placelog) : placelog[i].box = c}

\* Every child of page p was placed exactly once, after every render call
\* and every flow call made in the tree of p.
PlacedOnceAfterRender(p) ==
    \A j \in 1..Len(boxes[p].children) :
        LET c == boxes[p].children[j]
        IN  /\ Cardinality(PlacesOf(c)) = 1
            /\ \A i \in PlacesOf(c) :
                   /\ \A m \in 1..Len(renderlog) :
                          renderlog[m] \in TreeOf(p) =>
                              m <= placelog[i].rendered
                   /\ \A m \in 1..Len(flowlog) :
                          flowlog[m].box \in TreeOf(p) =>
                              m <= placelog[i].flowed

\* C22: for every page rendered in a pass, Page.render calls place() on
\* each child container of the page exactly once and only after the render
\* of the page's whole container tree has finished, also when that render
\* ended with EndOfPage, which reaches render_loop only after the children
\* were placed.
C22_ChildrenPlacedOnce ==
    \A i \in 1..Len(looplog) :
        looplog[i].ev = "render" => PlacedOnceAfterRender(looplog[i].page)

\* C22, what holds: the children are placed once and after the render of
\* the tree for every page whose render returned or ended with EndOfPage;
\* no place call is made on a page, nor on a container of a page whose
\* render was left by an EndOfContainer or has not been called yet.
C22_PlacedUnlessEndOfContainer ==
    /\ \A i \in 1..Len(looplog) :
           (looplog[i].ev = "render" /\ looplog[i].exc # "EndOfContainer") =>
               PlacedOnceAfterRender(looplog[i].page)
    /\ \A i \in 1..Len(looplog) :
           (looplog[i].ev = "render" /\ looplog[i].exc = "EndOfContainer") =>
               \A c \in TreeOf(looplog[i].page) : PlacesOf(c) = {}
    /\ \A i \in 1..Len(placelog) :
           \E m \in 1..Len(looplog) :
               /\ looplog[m].ev = "render"
               /\ placelog[i].box \in TreeOf(looplog[m].page) \ {looplog[m].page}

\* C22 witness: the render of a page with two children ended with
\* EndOfPage, both children were placed, and add_to_chain was called.
C22_Witness ==
    \E i \in 1..Len(looplog) :
        /\ looplog[i].ev = "render"
        /\ looplog[i].exc = "EndOfPage"
        /\ Len(boxes[looplog[i].page].children) = 2
        /\ PlacedOnceAfterRender(looplog[i].page)
        /\ i < Len(looplog)
        /\ looplog[i + 1].ev = "add_to_chain"

=============================================================================
